---- MODULE Spec2Model ----
(***************************************************************************)
(* Model of the web chat client of homelab-agent (webui/frontend/src).     *)
(*                                                                         *)
(* App.tsx owns the WebSocket to the backend (wsRef), the message thread   *)
(* (messages), the typing indicator (isTyping), the connection status      *)
(* (isConnected) and the active identity (userId).  Every React event      *)
(* handler and every WebSocket callback is one action.  The effect that    *)
(* reconnects on a change of userId is a step of its own (RunEffect);      *)
(* React flushes it in the same task as the handler that changed userId,   *)
(* so no other handler runs while it is pending.  Which modal or sidebar   *)
(* is shown is presentation state and is left out.                         *)
(*                                                                         *)
(* Strings are sequences of one-character strings, so that trim() and      *)
(* JavaScript truthiness are computed and not assumed.  An optional field  *)
(* of a frame is a sequence of length 0 (absent) or 1 (present).           *)
(***************************************************************************)
EXTENDS Integers, Sequences, FiniteSets, TLC

\* ------------------------------------------------------------------ bounds
MaxSockets == 2
MaxIds == 2
MaxInflight == 1
MaxFetches == 2

\* ------------------------------------------------------------- value sets
\* Identities the user can switch to ("web_" + random suffix, or typed).
Identities == {"web_a", "web_b"}

\* The identity generated at construction; identities are opaque, so one of
\* them stands for any.
InitialId == "web_a"

\* Texts the user can have in the input box.
Inputs == { <<>>, <<" ">>, <<" ", "a">> }

Absent == <<>>

Some(v) == <<v>>

Frame(ok, type, sender, content, typing) ==
    [ok |-> ok, type |-> type, sender |-> sender, content |-> content, typing |-> typing]

NoFrame == Frame(TRUE, "none", Absent, Absent, Absent)

\* Frames the server can put on the wire (WSMessage).
ServerFrames ==
    { Frame(TRUE, "message", Absent, Some(<<"h">>), Absent),
      Frame(TRUE, "message", Some("system"), Some(<<"h">>), Absent),
      Frame(TRUE, "message", Some("user"), Some(<<>>), Absent),
      Frame(TRUE, "typing", Absent, Absent, Some(TRUE)),
      Frame(TRUE, "tool", Absent, Some(<<"t">>), Absent) }

\* Text that is not JSON: JSON.parse does not return.
Malformed == Frame(FALSE, "none", Absent, Absent, Absent)

\* Everything a peer can put on the wire: the frames of the contract, text
\* that is not JSON, a kind the client does not know, and frames of a known
\* kind whose optional fields are left out or empty.
WireFrames ==
    ServerFrames \cup
    { Malformed,
      Frame(TRUE, "status", Absent, Some(<<"h">>), Absent),
      Frame(TRUE, "typing", Absent, Absent, Some(FALSE)),
      Frame(TRUE, "typing", Absent, Absent, Absent),
      Frame(TRUE, "tool", Absent, Some(<<>>), Absent),
      Frame(TRUE, "tool", Absent, Absent, Absent) }

\* Texts the user can have in the new-session input of the session picker.
NewIdInputs == { <<>>, <<" ">>, <<" ", "b", " ">>, <<"w", "e", "b", "_", "a">> }

\* Math.random().toString(36).substr(2, 9): the suffixes it can give.
RandomSuffixes == {"a", "b"}

\* Users that have sessions on the server (GET /api/sessions).
SidebarUsers == {"alice", "bob"}

\* selectedUser === null
NoUser == ""

\* selectedSession === null
NoSession == ""

\* The sessions GET /api/users/{u}/sessions answers with (Session[]).
SessionsOf(u) == << [id |-> "s_" \o u, user_id |-> u] >>

\* The memories GET /api/memories/{u} answers with (Memory[]).
MemoriesOf(u) == << [id |-> "m_" \o u, user_id |-> u] >>

\* The messages GET /api/sessions/{id}/messages answers with (MessageEvent[]).
MessagesOf(sid) == << [id |-> "e_" \o sid, session_id |-> sid] >>

\* How a fetch of a list can end: a body with the list, a JSON body without
\* that field, or fetch()/response.json() rejecting.
FetchOutcomes == {"list", "nofield", "rejected"}

VARIABLES
    messages,           \* useState<MessageData[]>: the thread
    input,              \* useState: text of the input box
    isTyping,           \* useState: typing indicator
    isConnected,        \* useState: connection status shown in the header
    userId,             \* useState: active identity
    wsRef,              \* useRef<WebSocket|null>: 0 is null, else index in socks
    socks,              \* every WebSocket constructed so far
    effectPending,      \* userId changed, the connect effect has not run yet
    mounted,            \* the connect effect is set up
    nextId,             \* number of the next entry id to hand out
    torn,               \* sockets torn down by an identity switch or unmount
    threw,              \* sockets whose onmessage handler has thrown (history)
    newUserId,          \* useState: text of the new-session input
    sidebar,            \* Sidebar.tsx: the state of the Sidebar component
    browser,            \* SessionBrowser.tsx: the state of the SessionBrowser
    last                \* the step taken last and the frames it put on the
                        \* wire (history variable)

vars == << messages, input, isTyping, isConnected, userId,
           wsRef, socks, effectPending, mounted, nextId, torn, last,
           threw, newUserId, sidebar, browser >>

\* --------------------------------------------------------------- helpers
IsSpace(c) == c = " "

RECURSIVE TrimStart(_)
TrimStart(s) ==
    IF s = <<>> THEN <<>>
    ELSE IF IsSpace(Head(s)) THEN TrimStart(Tail(s)) ELSE s

RECURSIVE TrimEnd(_)
TrimEnd(s) ==
    IF s = <<>> THEN <<>>
    ELSE IF IsSpace(s[Len(s)]) THEN TrimEnd(SubSeq(s, 1, Len(s) - 1)) ELSE s

\* String.prototype.trim
Trim(s) == TrimEnd(TrimStart(s))

\* JavaScript truthiness of an optional string: undefined and "" are falsy.
TruthyStr(opt) == Len(opt) = 1 /\ opt[1] # <<>>

\* JavaScript truthiness of an optional sender name.
TruthyName(opt) == Len(opt) = 1 /\ opt[1] # ""

\* JavaScript truthiness of an optional boolean.
TruthyBool(opt) == Len(opt) = 1 /\ opt[1] = TRUE

Last(op, sock, frame, flag) ==
    [op |-> op, sock |-> sock, frame |-> frame, flag |-> flag, out |-> <<>>]

\* MessageData; origin is the identity of the socket that produced the
\* entry (history, not a field of the program).
Entry(id, sender, content, origin) ==
    [id |-> id, sender |-> sender, content |-> content, origin |-> origin]

NewSocket(target) ==
    [target |-> target, readyState |-> "CONNECTING", inflight |-> 0]

Live(s) == socks[s].readyState \in {"CONNECTING", "OPEN"}

\* ------------------------------------------------- the WebSocket platform
\* WebSocket.close(): a socket that is connecting or open starts closing;
\* one that is closing or closed is left as it is.
WsClose(sk) ==
    IF sk.readyState \in {"CONNECTING", "OPEN"}
    THEN [sk EXCEPT !.readyState = "CLOSING"]
    ELSE sk

\* WebSocket.send() on an open socket: the frames the step has put on the
\* wire, each with the socket it went out on.
WsSend(wire, s, out) == Append(wire, [sock |-> s, frame |-> out])

OutMessage(content) == [type |-> "message", content |-> content]

OutForget == [type |-> "forget", content |-> <<>>]

\* ------------------------------------------------------ App.tsx, connect
CloseIfPresentSkipped(ss, ref) == ss

\* if (wsRef.current) wsRef.current.close()
CloseIfPresent(ss, ref) ==
    IF ref # 0 THEN [ss EXCEPT ![ref] = WsClose(@)] ELSE ss

\* connect(targetUserId): the sockets after the call; wsRef.current becomes
\* the socket appended last.
connect(ss, ref, targetUserId) ==
    Append(CloseIfPresent(ss, ref), NewSocket(targetUserId))

\* cleanup of the connect effect
effectCleanup(ss, ref) == CloseIfPresent(ss, ref)

\* ---------------------------------------------------- App.tsx, onmessage
AppendsEntry(data) ==
    /\ data.ok
    /\ data.type \in {"message", "tool"}
    /\ TruthyStr(data.content)

onmessagePrepend(data, msgs, typing, id, origin) ==
    IF ~data.ok THEN [messages |-> msgs, isTyping |-> typing, threw |-> TRUE]
    ELSE IF data.type = "message" /\ TruthyStr(data.content) THEN
        [messages |-> <<Entry(id, IF TruthyName(data.sender) THEN data.sender[1] ELSE "assistant",
                              data.content[1], origin)>> \o msgs,
         isTyping |-> FALSE, threw |-> FALSE]
    ELSE IF data.type = "typing" THEN
        [messages |-> msgs, isTyping |-> TruthyBool(data.typing), threw |-> FALSE]
    ELSE IF data.type = "tool" /\ TruthyStr(data.content) THEN
        [messages |-> <<Entry(id, "tool", data.content[1], origin)>> \o msgs,
         isTyping |-> typing, threw |-> FALSE]
    ELSE [messages |-> msgs, isTyping |-> typing, threw |-> FALSE]

onmessageKeepsTyping(data, msgs, typing, id, origin) ==
    IF ~data.ok THEN [messages |-> msgs, isTyping |-> typing, threw |-> TRUE]
    ELSE IF data.type = "message" /\ TruthyStr(data.content) THEN
        [messages |-> Append(msgs,
                        Entry(id, IF TruthyName(data.sender) THEN data.sender[1] ELSE "assistant",
                              data.content[1], origin)),
         isTyping |-> typing, threw |-> FALSE]
    ELSE IF data.type = "typing" THEN
        [messages |-> msgs, isTyping |-> TruthyBool(data.typing), threw |-> FALSE]
    ELSE IF data.type = "tool" /\ TruthyStr(data.content) THEN
        [messages |-> Append(msgs, Entry(id, "tool", data.content[1], origin)),
         isTyping |-> typing, threw |-> FALSE]
    ELSE [messages |-> msgs, isTyping |-> typing, threw |-> FALSE]

onmessageMalformedStopsTyping(data, msgs, typing, id, origin) ==
    IF ~data.ok THEN [messages |-> msgs, isTyping |-> FALSE, threw |-> TRUE]
    ELSE IF data.type = "message" /\ TruthyStr(data.content) THEN
        [messages |-> Append(msgs,
                        Entry(id, IF TruthyName(data.sender) THEN data.sender[1] ELSE "assistant",
                              data.content[1], origin)),
         isTyping |-> FALSE, threw |-> FALSE]
    ELSE IF data.type = "typing" THEN
        [messages |-> msgs, isTyping |-> TruthyBool(data.typing), threw |-> FALSE]
    ELSE IF data.type = "tool" /\ TruthyStr(data.content) THEN
        [messages |-> Append(msgs, Entry(id, "tool", data.content[1], origin)),
         isTyping |-> typing, threw |-> FALSE]
    ELSE [messages |-> msgs, isTyping |-> typing, threw |-> FALSE]

onmessageTypingSticky(data, msgs, typing, id, origin) ==
    IF ~data.ok THEN [messages |-> msgs, isTyping |-> typing, threw |-> TRUE]
    ELSE IF data.type = "message" /\ TruthyStr(data.content) THEN
        [messages |-> Append(msgs,
                        Entry(id, IF TruthyName(data.sender) THEN data.sender[1] ELSE "assistant",
                              data.content[1], origin)),
         isTyping |-> FALSE, threw |-> FALSE]
    ELSE IF data.type = "typing" THEN
        [messages |-> msgs, isTyping |-> typing \/ TruthyBool(data.typing), threw |-> FALSE]
    ELSE IF data.type = "tool" /\ TruthyStr(data.content) THEN
        [messages |-> Append(msgs, Entry(id, "tool", data.content[1], origin)),
         isTyping |-> typing, threw |-> FALSE]
    ELSE [messages |-> msgs, isTyping |-> typing, threw |-> FALSE]

onmessageToolStopsTyping(data, msgs, typing, id, origin) ==
    IF ~data.ok THEN [messages |-> msgs, isTyping |-> typing, threw |-> TRUE]
    ELSE IF data.type = "message" /\ TruthyStr(data.content) THEN
        [messages |-> Append(msgs,
                        Entry(id, IF TruthyName(data.sender) THEN data.sender[1] ELSE "assistant",
                              data.content[1], origin)),
         isTyping |-> FALSE, threw |-> FALSE]
    ELSE IF data.type = "typing" THEN
        [messages |-> msgs, isTyping |-> TruthyBool(data.typing), threw |-> FALSE]
    ELSE IF data.type = "tool" /\ TruthyStr(data.content) THEN
        [messages |-> Append(msgs, Entry(id, "tool", data.content[1], origin)),
         isTyping |-> FALSE, threw |-> FALSE]
    ELSE [messages |-> msgs, isTyping |-> typing, threw |-> FALSE]

\* ws.onmessage: JSON.parse throws on text that is not JSON (the handler
\* ends there); otherwise dispatch on data.type.
onmessage(data, msgs, typing, id, origin) ==
    IF ~data.ok THEN [messages |-> msgs, isTyping |-> typing, threw |-> TRUE]
    ELSE IF data.type = "message" /\ TruthyStr(data.content) THEN
        [messages |-> Append(msgs,
                        Entry(id, IF TruthyName(data.sender) THEN data.sender[1] ELSE "assistant",
                              data.content[1], origin)),
         isTyping |-> FALSE, threw |-> FALSE]
    ELSE IF data.type = "typing" THEN
        [messages |-> msgs, isTyping |-> TruthyBool(data.typing), threw |-> FALSE]
    ELSE IF data.type = "tool" /\ TruthyStr(data.content) THEN
        [messages |-> Append(msgs, Entry(id, "tool", data.content[1], origin)),
         isTyping |-> typing, threw |-> FALSE]
    ELSE [messages |-> msgs, isTyping |-> typing, threw |-> FALSE]

\* -------------------------------------------------- App.tsx, sendMessage
sendBlockedNoStateCheck(inp, ref, ss) ==
    \/ Trim(inp) = <<>>
    \/ ref = 0

\* the early return of sendMessage
sendBlocked(inp, ref, ss) ==
    \/ Trim(inp) = <<>>
    \/ ref = 0
    \/ ss[ref].readyState # "OPEN"

\* the early return of forgetSession
forgetBlocked(ref, ss) ==
    \/ ref = 0
    \/ ss[ref].readyState # "OPEN"

sentContentRaw(inp) == inp

\* const content = input.trim()
sentContent(inp) == Trim(inp)

\* ------------------------------------------------ App.tsx, handleNewSession
RECURSIVE Join(_)
\* the string whose characters are s
Join(s) == IF s = <<>> THEN "" ELSE Head(s) \o Join(Tail(s))

newSessionIdRaw(text, sfx) ==
    IF Trim(text) # <<>> THEN Join(text) ELSE "web_" \o sfx

\* newUserId.trim() || 'web_' + Math.random().toString(36).substr(2, 9)
newSessionId(text, sfx) ==
    IF Trim(text) # <<>> THEN Join(Trim(text)) ELSE "web_" \o sfx

\* ------------------------------------------------------------ Sidebar.tsx
\* useState of Sidebar: users, selectedUser, sessions, memories,
\* memoryUsers, selectedMemoryUser, loading; pending is the requests for a
\* user's sessions or memories that are in flight, in the order of the
\* calls; failed says that some request was rejected (history).
SidebarInit ==
    [users |-> {}, selectedUser |-> NoUser, sessions |-> <<>>,
     memories |-> <<>>, memoryUsers |-> {}, selectedMemoryUser |-> NoUser,
     loading |-> FALSE, pending |-> <<>>, failed |-> FALSE]

Request(what, u) == [what |-> what, user |-> u]

\* fetchSessions after its awaits: setSessions(data.sessions || []) in the
\* try block, nothing but a log in the catch block
fetchSessionsResult(cur, u, outcome) ==
    CASE outcome = "list" -> SessionsOf(u)
      [] outcome = "nofield" -> <<>>
      [] outcome = "rejected" -> cur

\* fetchMemories after its awaits: setMemories(data.memories || []) in the
\* try block, nothing but a log in the catch block
fetchMemoriesResult(cur, u, outcome) ==
    CASE outcome = "list" -> MemoriesOf(u)
      [] outcome = "nofield" -> <<>>
      [] outcome = "rejected" -> cur

\* ----------------------------------------------------- SessionBrowser.tsx
\* useState of SessionBrowser: users, selectedUser, userSessions,
\* selectedSession, messages, loading, messagesTotal; pending is the
\* requests for a user's sessions or a session's messages in flight.
BrowserInit ==
    [users |-> {}, selectedUser |-> NoUser, userSessions |-> <<>>,
     selectedSession |-> NoSession, messages |-> <<>>, messagesTotal |-> 0,
     loading |-> FALSE, pending |-> <<>>]

\* fetchUserSessions after its awaits: setUserSessions(data.sessions || [])
\* in the try block, nothing but a log in the catch block
fetchUserSessionsResult(cur, u, outcome) ==
    CASE outcome = "list" -> SessionsOf(u)
      [] outcome = "nofield" -> <<>>
      [] outcome = "rejected" -> cur

\* fetchMessages after its awaits: setMessages(data.messages || [])
fetchMessagesResult(cur, sid, outcome) ==
    CASE outcome = "list" -> MessagesOf(sid)
      [] outcome = "nofield" -> <<>>
      [] outcome = "rejected" -> cur

\* fetchMessages after its awaits: setMessagesTotal(data.total || 0)
fetchMessagesTotal(cur, sid, outcome) ==
    CASE outcome = "list" -> Len(MessagesOf(sid))
      [] outcome = "nofield" -> 0
      [] outcome = "rejected" -> cur

\* the ids of the sessions in a list
SessionIds(list) == { list[i].id : i \in DOMAIN list }

RemoveAt(q, i) == SubSeq(q, 1, i - 1) \o SubSeq(q, i + 1, Len(q))

\* ------------------------------------------------------------------ Init
Init ==
    /\ messages = <<>>
    /\ input = <<>>
    /\ isTyping = FALSE
    /\ isConnected = FALSE
    /\ userId = InitialId
    /\ wsRef = 0
    /\ socks = <<>>
    /\ effectPending = FALSE
    /\ mounted = FALSE
    /\ nextId = 1
    /\ torn = {}
    /\ threw = {}
    /\ newUserId = <<>>
    /\ sidebar = SidebarInit
    /\ browser = BrowserInit
    /\ last = Last("init", 0, NoFrame, FALSE)

\* --------------------------------------------------------------- actions
\* useEffect(() => { connect(userId); ... }, [userId, connect]) on mount.  An
\* unmounted component is not mounted again: a new mount is a new instance.
Mount ==
    /\ ~mounted
    /\ wsRef = 0
    /\ Len(socks) < MaxSockets
    /\ socks' = connect(socks, wsRef, userId)
    /\ wsRef' = Len(socks')
    /\ mounted' = TRUE
    /\ last' = Last("mount", 0, NoFrame, FALSE)
    /\ UNCHANGED << messages, input, isTyping, isConnected, userId,
                    effectPending, nextId, torn >>
    /\ UNCHANGED << newUserId, sidebar, browser, threw >>

\* the effect's cleanup on unmount
Unmount ==
    /\ mounted
    /\ ~effectPending
    /\ socks' = effectCleanup(socks, wsRef)
    /\ torn' = torn \cup ({wsRef} \ {0})
    /\ mounted' = FALSE
    /\ last' = Last("unmount", 0, NoFrame, FALSE)
    /\ UNCHANGED << messages, input, isTyping, isConnected, userId,
                    wsRef, effectPending, nextId >>
    /\ UNCHANGED << newUserId, sidebar, browser, threw >>

switchSessionKeepsMessages(newId) ==
    /\ mounted
    /\ ~effectPending
    /\ newId # userId => Len(socks) < MaxSockets
    /\ userId' = newId
    /\ effectPending' = (newId # userId)
    /\ last' = Last("switchSession", wsRef, NoFrame, newId = userId)
    /\ UNCHANGED << messages, input, isTyping, isConnected, wsRef, socks, mounted,
                    nextId, torn >>
    /\ UNCHANGED << newUserId, sidebar, browser, threw >>

\* switchSession(newId); setUserId with the value userId already has does
\* not change the state, so the effect that depends on userId is not run.
switchSession(newId) ==
    /\ mounted
    /\ ~effectPending
    /\ newId # userId => Len(socks) < MaxSockets
    /\ messages' = <<>>
    /\ userId' = newId
    /\ effectPending' = (newId # userId)
    /\ last' = Last("switchSession", wsRef, NoFrame, newId = userId)
    /\ UNCHANGED << input, isTyping, isConnected, wsRef, socks, mounted, nextId, torn >>
    /\ UNCHANGED << newUserId, sidebar, browser, threw >>

\* the connect effect after userId changed: cleanup, then connect(userId)
RunEffect ==
    /\ effectPending
    /\ socks' = connect(effectCleanup(socks, wsRef), wsRef, userId)
    /\ wsRef' = Len(socks')
    /\ torn' = torn \cup ({wsRef} \ {0})
    /\ effectPending' = FALSE
    /\ last' = Last("effect", wsRef, NoFrame, FALSE)
    /\ UNCHANGED << messages, input, isTyping, isConnected, userId,
                    mounted, nextId >>
    /\ UNCHANGED << newUserId, sidebar, browser, threw >>

\* InputArea onChange; the textarea is disabled while not connected
setInput(v) ==
    /\ mounted
    /\ ~effectPending
    /\ isConnected
    /\ v # input
    /\ input' = v
    /\ last' = Last("setInput", 0, NoFrame, FALSE)
    /\ UNCHANGED << messages, isTyping, isConnected, userId,
                    wsRef, socks, effectPending, mounted, nextId, torn >>
    /\ UNCHANGED << newUserId, sidebar, browser, threw >>

\* sendMessage (Enter in the textarea, or the send button)
sendMessage ==
    /\ mounted
    /\ ~effectPending
    /\ isConnected
    /\ IF sendBlocked(input, wsRef, socks)
       THEN /\ last' = Last("sendMessage", 0, NoFrame, FALSE)
            /\ UNCHANGED << messages, input, isTyping, nextId >>
       ELSE /\ nextId <= MaxIds
            /\ messages' = Append(messages,
                             Entry(nextId, "user", sentContent(input), socks[wsRef].target))
            /\ input' = <<>>
            /\ isTyping' = TRUE
            /\ nextId' = nextId + 1
            /\ last' = [Last("sendMessage", 0, NoFrame, TRUE) EXCEPT
                           !.out = WsSend(<<>>, wsRef, OutMessage(sentContent(input)))]
    /\ UNCHANGED << isConnected, userId, wsRef, socks, effectPending, mounted, torn >>
    /\ UNCHANGED << newUserId, sidebar, browser, threw >>

\* forgetSession (the clear button)
forgetSession ==
    /\ mounted
    /\ ~effectPending
    /\ isConnected
    /\ IF forgetBlocked(wsRef, socks)
       THEN /\ last' = Last("forgetSession", 0, NoFrame, FALSE)
            /\ UNCHANGED messages
       ELSE /\ messages' = <<>>
            /\ last' = [Last("forgetSession", 0, NoFrame, TRUE) EXCEPT
                           !.out = WsSend(<<>>, wsRef, OutForget)]
    /\ UNCHANGED << input, isTyping, isConnected, userId, wsRef, socks,
                    effectPending, mounted, nextId, torn >>
    /\ UNCHANGED << newUserId, sidebar, browser, threw >>

\* ws.onopen: the handshake succeeded
onopen(s) ==
    /\ ~effectPending
    /\ socks[s].readyState = "CONNECTING"
    /\ socks' = [socks EXCEPT ![s].readyState = "OPEN"]
    /\ isConnected' = TRUE
    /\ last' = Last("onopen", s, NoFrame, FALSE)
    /\ UNCHANGED << messages, input, isTyping, userId,
                    wsRef, effectPending, mounted, nextId, torn >>
    /\ UNCHANGED << newUserId, sidebar, browser, threw >>

\* the server writes a frame to an open connection: one more frame is on its
\* way; what it holds is read when it arrives
ServerFrame(s) ==
    /\ ~effectPending
    /\ socks[s].readyState = "OPEN"
    /\ socks[s].inflight < MaxInflight
    /\ socks' = [socks EXCEPT ![s].inflight = @ + 1]
    /\ last' = Last("serverFrame", 0, NoFrame, FALSE)
    /\ UNCHANGED << messages, input, isTyping, isConnected, userId, wsRef,
                    effectPending, mounted, nextId, torn >>
    /\ UNCHANGED << newUserId, sidebar, browser, threw >>

\* a frame arrives: the message event is fired only on a socket whose
\* readyState is OPEN, else the frame is dropped
Deliver(s, f) ==
    /\ ~effectPending
    /\ socks[s].inflight > 0
    /\ LET fired == socks[s].readyState = "OPEN"
           r == onmessage(f, messages, isTyping, nextId, socks[s].target)
       IN /\ socks' = [socks EXCEPT ![s].inflight = @ - 1]
          /\ IF fired
             THEN /\ AppendsEntry(f) => nextId <= MaxIds
                  /\ messages' = r.messages
                  /\ isTyping' = r.isTyping
                  /\ nextId' = IF AppendsEntry(f) THEN nextId + 1 ELSE nextId
             ELSE UNCHANGED << messages, isTyping, nextId >>
          /\ threw' = IF fired /\ r.threw THEN threw \cup {s} ELSE threw
          /\ last' = IF fired
                     THEN Last("onmessage", s, f, r.threw)
                     ELSE Last("dropped", s, NoFrame, AppendsEntry(f))
    /\ UNCHANGED << input, isConnected, userId, wsRef, effectPending, mounted, torn >>
    /\ UNCHANGED << newUserId, sidebar, browser >>

\* ws.onclose after close() was called on the socket
CloseEvent(s) ==
    /\ ~effectPending
    /\ socks[s].readyState = "CLOSING"
    /\ socks' = [socks EXCEPT ![s].readyState = "CLOSED"]
    /\ isConnected' = FALSE
    /\ last' = Last("onclose", s, NoFrame, FALSE)
    /\ UNCHANGED << messages, input, isTyping, userId,
                    wsRef, effectPending, mounted, nextId, torn >>
    /\ UNCHANGED << newUserId, sidebar, browser, threw >>

TransportFailureStatusKept(s) ==
    /\ ~effectPending
    /\ socks[s].readyState \in {"CONNECTING", "OPEN"}
    /\ socks[s].inflight = 0
    /\ socks' = [socks EXCEPT ![s].readyState = "CLOSED"]
    /\ last' = Last("onclose", s, NoFrame, TRUE)
    /\ UNCHANGED << messages, input, isTyping, isConnected, userId,
                    wsRef, effectPending, mounted, nextId, torn >>
    /\ UNCHANGED << newUserId, sidebar, browser, threw >>

TransportFailureReconnects(s) ==
    /\ ~effectPending
    /\ socks[s].readyState \in {"CONNECTING", "OPEN"}
    /\ socks[s].inflight = 0
    /\ socks' = Append([socks EXCEPT ![s].readyState = "CLOSED"], NewSocket(userId))
    /\ wsRef' = Len(socks')
    /\ isConnected' = FALSE
    /\ last' = Last("onclose", s, NoFrame, TRUE)
    /\ UNCHANGED << messages, input, isTyping, userId,
                    effectPending, mounted, nextId, torn >>
    /\ UNCHANGED << newUserId, sidebar, browser, threw >>

\* ws.onerror / ws.onclose: the connection failed or the server closed it
TransportFailure(s) ==
    /\ ~effectPending
    /\ socks[s].readyState \in {"CONNECTING", "OPEN"}
    /\ socks[s].inflight = 0
    /\ socks' = [socks EXCEPT ![s].readyState = "CLOSED"]
    /\ isConnected' = FALSE
    /\ last' = Last("onclose", s, NoFrame, TRUE)
    /\ UNCHANGED << messages, input, isTyping, userId,
                    wsRef, effectPending, mounted, nextId, torn >>
    /\ UNCHANGED << newUserId, sidebar, browser, threw >>

Next ==
    \/ Mount
    \/ Unmount
    \/ \E newId \in Identities : switchSession(newId)
    \/ RunEffect
    \/ \E v \in Inputs : setInput(v)
    \/ sendMessage
    \/ forgetSession
    \/ \E s \in DOMAIN socks : onopen(s)
    \/ \E s \in DOMAIN socks : ServerFrame(s)
    \/ \E s \in DOMAIN socks : \E f \in ServerFrames : Deliver(s, f)
    \/ \E s \in DOMAIN socks : CloseEvent(s)
    \/ \E s \in DOMAIN socks : TransportFailure(s)

Spec == Init /\ [][Next]_vars

\* ------------------------------------------- inbound frames of every shape
\* One connection and everything a peer can send on it.
NextFrames ==
    \/ Mount
    \/ \E v \in Inputs : setInput(v)
    \/ sendMessage
    \/ \E s \in DOMAIN socks : onopen(s)
    \/ \E s \in DOMAIN socks : ServerFrame(s)
    \/ \E s \in DOMAIN socks : \E f \in WireFrames : Deliver(s, f)
    \/ \E s \in DOMAIN socks : TransportFailure(s)

SpecFrames == Init /\ [][NextFrames]_vars

\* --------------------------------------------- App.tsx, the session picker
\* onNewUserIdChange: typing in the new-session input
setNewUserId(v) ==
    /\ mounted
    /\ ~effectPending
    /\ v # newUserId
    /\ newUserId' = v
    /\ last' = Last("setNewUserId", 0, NoFrame, FALSE)
    /\ UNCHANGED << messages, input, isTyping, isConnected, userId, wsRef, socks,
                    effectPending, mounted, nextId, torn, threw, sidebar, browser >>

\* handleNewSession (Enter in the new-session input, or Create):
\* switchSession(id), then setNewUserId('')
handleNewSession(sfx) ==
    LET id == newSessionId(newUserId, sfx) IN
    /\ mounted
    /\ ~effectPending
    /\ id # userId => Len(socks) < MaxSockets
    /\ messages' = <<>>
    /\ userId' = id
    /\ effectPending' = (id # userId)
    /\ newUserId' = <<>>
    /\ last' = Last("handleNewSession", wsRef, NoFrame, id = userId)
    /\ UNCHANGED << input, isTyping, isConnected, wsRef, socks, mounted, nextId,
                    torn, threw, sidebar, browser >>

NextPicker ==
    \/ Mount
    \/ \E v \in NewIdInputs : setNewUserId(v)
    \/ \E sfx \in RandomSuffixes : handleNewSession(sfx)
    \/ RunEffect
    \/ \E s \in DOMAIN socks : onopen(s)
    \/ \E s \in DOMAIN socks : ServerFrame(s)
    \/ \E s \in DOMAIN socks : \E f \in ServerFrames : Deliver(s, f)
    \/ \E s \in DOMAIN socks : CloseEvent(s)

SpecPicker == Init /\ [][NextPicker]_vars

\* ------------------------------------------------- Sidebar.tsx, sessions
appVars == << messages, input, isTyping, isConnected, userId, wsRef, socks,
              effectPending, mounted, nextId, torn, threw, newUserId >>

\* the effect on opening the sidebar on its sessions tab: fetchUsers() and
\* the response to it
fetchUsers ==
    /\ sidebar.users = {}
    /\ sidebar' = [sidebar EXCEPT !.users = SidebarUsers]
    /\ last' = Last("fetchUsers", 0, NoFrame, FALSE)
    /\ UNCHANGED << appVars, browser >>

\* the same effect on the memories tab: fetchMemoryUsers() and the response
fetchMemoryUsers ==
    /\ sidebar.memoryUsers = {}
    /\ sidebar' = [sidebar EXCEPT !.memoryUsers = SidebarUsers]
    /\ last' = Last("fetchMemoryUsers", 0, NoFrame, FALSE)
    /\ UNCHANGED << appVars, browser >>

\* click on a user: setSelectedUser(user); the effect on selectedUser then
\* calls fetchSessions(selectedUser), which raises loading and sends the
\* request.  A click on the user already selected changes nothing.
selectUser(u) ==
    /\ u \in sidebar.users
    /\ u # sidebar.selectedUser
    /\ Len(sidebar.pending) < MaxFetches
    /\ sidebar' = [sidebar EXCEPT !.selectedUser = u,
                                  !.loading = TRUE,
                                  !.pending = Append(@, Request("sessions", u))]
    /\ last' = Last("selectUser", 0, NoFrame, FALSE)
    /\ UNCHANGED << appVars, browser >>

\* click on a user of the memories tab: setSelectedMemoryUser(user); the
\* effect on selectedMemoryUser then calls fetchMemories
selectMemoryUser(u) ==
    /\ u \in sidebar.memoryUsers
    /\ u # sidebar.selectedMemoryUser
    /\ Len(sidebar.pending) < MaxFetches
    /\ sidebar' = [sidebar EXCEPT !.selectedMemoryUser = u,
                                  !.loading = TRUE,
                                  !.pending = Append(@, Request("memories", u))]
    /\ last' = Last("selectMemoryUser", 0, NoFrame, FALSE)
    /\ UNCHANGED << appVars, browser >>

\* fetchSessions after its awaits: the request sent i-th among those in
\* flight ends; setSessions on success, then setLoading(false) either way
fetchSessionsSettled(i, outcome) ==
    /\ i \in DOMAIN sidebar.pending
    /\ sidebar.pending[i].what = "sessions"
    /\ sidebar' = [sidebar EXCEPT
                      !.sessions = fetchSessionsResult(@, sidebar.pending[i].user, outcome),
                      !.loading = FALSE,
                      !.pending = RemoveAt(@, i),
                      !.failed = @ \/ outcome = "rejected"]
    /\ last' = Last("fetchSessions", 0, NoFrame, outcome = "rejected")
    /\ UNCHANGED << appVars, browser >>

\* fetchMemories after its awaits, in the same way
fetchMemoriesSettled(i, outcome) ==
    /\ i \in DOMAIN sidebar.pending
    /\ sidebar.pending[i].what = "memories"
    /\ sidebar' = [sidebar EXCEPT
                      !.memories = fetchMemoriesResult(@, sidebar.pending[i].user, outcome),
                      !.loading = FALSE,
                      !.pending = RemoveAt(@, i),
                      !.failed = @ \/ outcome = "rejected"]
    /\ last' = Last("fetchMemories", 0, NoFrame, outcome = "rejected")
    /\ UNCHANGED << appVars, browser >>

NextSidebar ==
    \/ fetchUsers
    \/ fetchMemoryUsers
    \/ \E u \in SidebarUsers : selectUser(u)
    \/ \E u \in SidebarUsers : selectMemoryUser(u)
    \/ \E i \in 1..MaxFetches : \E outcome \in FetchOutcomes :
           fetchSessionsSettled(i, outcome)
    \/ \E i \in 1..MaxFetches : \E outcome \in FetchOutcomes :
           fetchMemoriesSettled(i, outcome)

SpecSidebar == Init /\ [][NextSidebar]_vars

\* ----------------------------------------------------- SessionBrowser.tsx
\* the effect on mount: fetchUsers() and the response to it
browserFetchUsers ==
    /\ browser.users = {}
    /\ browser' = [browser EXCEPT !.users = SidebarUsers]
    /\ last' = Last("browserFetchUsers", 0, NoFrame, FALSE)
    /\ UNCHANGED << appVars, sidebar >>

\* handleUserClick; the users list is rendered only while no user is
\* selected and loading is false.  fetchUserSessions raises loading and
\* sends the request.
handleUserClick(u) ==
    /\ browser.selectedUser = NoUser
    /\ ~browser.loading
    /\ u \in browser.users
    /\ Len(browser.pending) < MaxFetches
    /\ browser' = [browser EXCEPT !.selectedUser = u,
                                  !.selectedSession = NoSession,
                                  !.messages = <<>>,
                                  !.loading = TRUE,
                                  !.pending = Append(@, Request("sessions", u))]
    /\ last' = Last("handleUserClick", 0, NoFrame, FALSE)
    /\ UNCHANGED << appVars, sidebar >>

\* handleSessionClick; the sessions list is rendered only while a user and
\* no session is selected and loading is false.  fetchMessages raises
\* loading and sends the request.
handleSessionClick(sid) ==
    /\ browser.selectedUser # NoUser
    /\ browser.selectedSession = NoSession
    /\ ~browser.loading
    /\ sid \in SessionIds(browser.userSessions)
    /\ Len(browser.pending) < MaxFetches
    /\ browser' = [browser EXCEPT !.selectedSession = sid,
                                  !.loading = TRUE,
                                  !.pending = Append(@, Request("messages", sid))]
    /\ last' = Last("handleSessionClick", 0, NoFrame, FALSE)
    /\ UNCHANGED << appVars, sidebar >>

handleBackClearsUser ==
    /\ (browser.selectedUser # NoUser \/ browser.selectedSession # NoSession)
    /\ browser' = IF browser.selectedUser # NoUser
                  THEN [browser EXCEPT !.selectedUser = NoUser, !.userSessions = <<>>]
                  ELSE IF browser.selectedSession # NoSession
                  THEN [browser EXCEPT !.selectedSession = NoSession, !.messages = <<>>]
                  ELSE browser
    /\ last' = Last("handleBack", 0, NoFrame, browser.selectedSession # NoSession)
    /\ UNCHANGED << appVars, sidebar >>

\* handleBack; the Back button is rendered while a user or a session is
\* selected, loading or not
handleBack ==
    /\ (browser.selectedUser # NoUser \/ browser.selectedSession # NoSession)
    /\ browser' = IF browser.selectedSession # NoSession
                  THEN [browser EXCEPT !.selectedSession = NoSession, !.messages = <<>>]
                  ELSE IF browser.selectedUser # NoUser
                  THEN [browser EXCEPT !.selectedUser = NoUser, !.userSessions = <<>>]
                  ELSE browser
    /\ last' = Last("handleBack", 0, NoFrame, browser.selectedSession # NoSession)
    /\ UNCHANGED << appVars, sidebar >>

\* fetchUserSessions after its awaits: the request sent i-th among those in
\* flight ends; setUserSessions on success, setLoading(false) in finally
fetchUserSessionsSettled(i, outcome) ==
    /\ i \in DOMAIN browser.pending
    /\ browser.pending[i].what = "sessions"
    /\ browser' = [browser EXCEPT
                      !.userSessions =
                          fetchUserSessionsResult(@, browser.pending[i].user, outcome),
                      !.loading = FALSE,
                      !.pending = RemoveAt(@, i)]
    /\ last' = Last("fetchUserSessions", 0, NoFrame, outcome = "rejected")
    /\ UNCHANGED << appVars, sidebar >>

\* fetchMessages after its awaits, in the same way
fetchMessagesSettled(i, outcome) ==
    /\ i \in DOMAIN browser.pending
    /\ browser.pending[i].what = "messages"
    /\ browser' = [browser EXCEPT
                      !.messages =
                          fetchMessagesResult(@, browser.pending[i].user, outcome),
                      !.messagesTotal =
                          fetchMessagesTotal(@, browser.pending[i].user, outcome),
                      !.loading = FALSE,
                      !.pending = RemoveAt(@, i)]
    /\ last' = Last("fetchMessages", 0, NoFrame, outcome = "rejected")
    /\ UNCHANGED << appVars, sidebar >>

NextBrowser ==
    \/ browserFetchUsers
    \/ \E u \in SidebarUsers : handleUserClick(u)
    \/ \E sid \in SessionIds(browser.userSessions) : handleSessionClick(sid)
    \/ handleBack
    \/ \E i \in 1..MaxFetches : \E outcome \in FetchOutcomes :
           fetchUserSessionsSettled(i, outcome)
    \/ \E i \in 1..MaxFetches : \E outcome \in FetchOutcomes :
           fetchMessagesSettled(i, outcome)

SpecBrowser == Init /\ [][NextBrowser]_vars


\* ================================================================ claims
\* The text the user typed without its leading and trailing spaces, stated
\* on the positions of the text.
AllSpaces(inp) == \A i \in DOMAIN inp : inp[i] = " "

Stripped(inp) ==
    LET i == CHOOSE k \in DOMAIN inp :
                 inp[k] # " " /\ \A m \in 1..(k - 1) : inp[m] = " "
        j == CHOOSE k \in DOMAIN inp :
                 inp[k] # " " /\ \A m \in (k + 1)..Len(inp) : inp[m] = " "
    IN SubSeq(inp, i, j)

ChannelOpen == wsRef # 0 /\ socks[wsRef].readyState = "OPEN"

\* The states in which a switch of identity has just completed: the handler
\* returned and no effect is left to run, or the effect has just run.
SwitchDone ==
    \/ last.op = "switchSession" /\ ~effectPending
    \/ last.op = "effect"

LiveSockets == { s \in DOMAIN socks : Live(s) }

\* C1: a switch to the identity that is already active is a full reset: once
\* it has completed the Timeline is empty, the channel held before is no
\* longer live and wsRef holds a new channel addressed by that identity.
C1_SameIdentitySwitchReopens ==
    (last.op = "switchSession" /\ last.flag /\ ~effectPending) =>
        /\ messages = <<>>
        /\ wsRef # last.sock
        /\ ~Live(last.sock)
        /\ socks[wsRef].target = userId
        /\ socks[wsRef].readyState = "CONNECTING"

\* C2: a frame of a channel torn down by an identity switch or an unmount
\* that is delivered afterwards changes neither the Timeline nor the
\* TypingFlag.
C2_StaleFramesDiscarded ==
    [][ \A s \in DOMAIN socks :
          (s \in torn /\ socks'[s].inflight < socks[s].inflight) =>
              (messages' = messages /\ isTyping' = isTyping) ]_vars

\* C2 witness: a frame that would have appended an entry arrived on a torn
\* down channel and was dropped.
C2_Witness ==
    /\ last.op = "dropped"
    /\ last.sock \in torn
    /\ last.flag

\* C3: every entry of the Timeline was produced under the active identity,
\* and while the reconnect of a switch is still to run the Timeline is empty.
C3_TimelineOfActiveIdentity ==
    /\ \A i \in DOMAIN messages : messages[i].origin = userId
    /\ effectPending => messages = <<>>

\* C3 witness: after a switch that left frames of the old identity in
\* flight, the Timeline holds an entry of the new identity.
C3_Witness ==
    /\ messages # <<>>
    /\ \E s \in torn : socks[s].target # userId
    /\ \E s \in torn : socks[s].readyState = "CLOSING" /\ socks[s].inflight > 0

\* C4: at most one channel is connecting or open.
C4_AtMostOneLive == Cardinality(LiveSockets) <= 1

\* C4 witness: a channel was open, a switch replaced it, and the new
\* channel is open too.
C4_Witness ==
    /\ torn # {}
    /\ ChannelOpen
    /\ \E s \in torn : socks[s].readyState = "CLOSING"

\* C5: after forget() the Timeline is empty and the TypingFlag is false,
\* whatever the state of the channel.
C5_ForgetAlwaysClears ==
    last.op = "forgetSession" => (messages = <<>> /\ isTyping = FALSE)

\* C6: after a completed switch the Timeline is empty and the TypingFlag is
\* false.
C6_SwitchClears ==
    SwitchDone => (messages = <<>> /\ isTyping = FALSE)

\* C7: a send with a text that is empty after trimming, or with the channel
\* absent, connecting, closing or closed, transmits nothing, raises nothing
\* and leaves Timeline, TypingFlag and the input as they are.
C7_BlockedSendIsNoOp ==
    [][ (last'.op = "sendMessage" /\ (AllSpaces(input) \/ ~ChannelOpen)) =>
            /\ messages' = messages
            /\ isTyping' = isTyping
            /\ last'.out = <<>>
            /\ input' = input
            /\ last'.flag = FALSE ]_vars

\* C7 witness: a send of a non-empty text was refused because the channel
\* was not open.
C7_Witness ==
    /\ last.op = "sendMessage"
    /\ ~last.flag
    /\ ~AllSpaces(input)
    /\ ~ChannelOpen

\* C8: a send of a text that is not empty after trimming, on an open
\* channel, appends one user entry with the trimmed text, transmits one
\* message frame with the same text on that channel and sets the TypingFlag;
\* an inbound event handled later leaves every earlier entry ahead of its own.
C8_SendAppendsThenTransmits ==
    [][ /\ (last'.op = "sendMessage" /\ ~AllSpaces(input) /\ ChannelOpen) =>
              /\ Len(messages') = Len(messages) + 1
              /\ SubSeq(messages', 1, Len(messages)) = messages
              /\ messages'[Len(messages')].sender = "user"
              /\ messages'[Len(messages')].content = Stripped(input)
              /\ last'.out = << [sock |-> wsRef, frame |-> OutMessage(Stripped(input))] >>
              /\ isTyping' = TRUE
        /\ last'.op = "onmessage" =>
              /\ Len(messages') >= Len(messages)
              /\ \A i \in DOMAIN messages :
                     messages[i].sender = "user" => messages'[i] = messages[i] ]_vars

\* C8 witness: the user's entry is in the Timeline ahead of the entry of a
\* reply that arrived after the send.
C8_Witness ==
    /\ last.op = "onmessage"
    /\ Len(messages) = 2
    /\ messages[1].sender = "user"
    /\ messages[1].content = <<"a">>
    /\ messages[2].sender = "assistant"

\* C9: the Timeline only grows at its end, in the order the events are
\* handled: a step leaves it alone, empties it (a switch or a forget), or
\* appends one entry carrying the id handed out for the event; an inbound
\* frame that yields an entry adds it last, whatever is there already.
C9_AppendOnlyInDeliveryOrder ==
    [][ /\ \/ messages' = messages
           \/ messages' = <<>> /\ last'.op \in {"switchSession", "forgetSession"}
           \/ /\ Len(messages') = Len(messages) + 1
              /\ SubSeq(messages', 1, Len(messages)) = messages
              /\ messages'[Len(messages')].id = nextId
              /\ last'.op \in {"sendMessage", "onmessage"}
        /\ (last'.op = "onmessage" /\ AppendsEntry(last'.frame)) =>
              /\ Len(messages') = Len(messages) + 1
              /\ messages'[Len(messages')].content = last'.frame.content[1] ]_vars

\* C9 witness: two events with the same sender and text were delivered one
\* after the other and both entries are in the Timeline.
C9_Witness ==
    /\ last.op = "onmessage"
    /\ Len(messages) = 2
    /\ messages[1].content = messages[2].content
    /\ messages[1].sender = messages[2].sender
    /\ messages[1].id < messages[2].id

DeclaredSender(f) == IF Len(f.sender) = 1 THEN f.sender[1] ELSE "assistant"

MessageEventHandled == last'.op = "onmessage" /\ last'.frame.ok /\ last'.frame.type = "message"

\* C10 as stated: every inbound message event, whatever its content, appends
\* one entry with the declared sender (assistant when none is declared) and
\* clears the TypingFlag.
C10_EveryMessageEventAppends ==
    [][ MessageEventHandled =>
            /\ Len(messages') = Len(messages) + 1
            /\ SubSeq(messages', 1, Len(messages)) = messages
            /\ messages'[Len(messages')].sender = DeclaredSender(last'.frame)
            /\ isTyping' = FALSE ]_vars

\* C10 amended: an inbound message event with a non-empty content appends one
\* entry with that content and the declared sender (assistant when none is
\* declared) and clears the TypingFlag; one whose content is empty or absent
\* leaves the Timeline and the TypingFlag as they are.
C10_NonEmptyMessageEventAppends ==
    [][ MessageEventHandled =>
            IF TruthyStr(last'.frame.content)
            THEN /\ Len(messages') = Len(messages) + 1
                 /\ SubSeq(messages', 1, Len(messages)) = messages
                 /\ messages'[Len(messages')].sender = DeclaredSender(last'.frame)
                 /\ messages'[Len(messages')].content = last'.frame.content[1]
                 /\ isTyping' = FALSE
            ELSE /\ messages' = messages
                 /\ isTyping' = isTyping ]_vars

\* C10 witness: a message event that declares the sender system arrived
\* after a local send and its entry follows the user's.
C10_Witness ==
    /\ last.op = "onmessage"
    /\ last.frame.type = "message"
    /\ last.frame.sender = Some("system")
    /\ Len(messages) = 2
    /\ messages[1].sender = "user"
    /\ messages[2].sender = "system"
    /\ isTyping = FALSE

\* C11: a transport error or a remote close on the current channel closes
\* it, and the connection status shown becomes disconnected.
C11_TransportFailureDisconnects ==
    [][ \A s \in DOMAIN socks :
            (s = wsRef /\ Live(s) /\ ~Live(s)' /\ socks'[s].readyState = "CLOSED")
                => isConnected' = FALSE ]_vars

\* C11 witness: the current channel was open and connected, failed, and the
\* status is disconnected.
C11_Witness ==
    /\ last.op = "onclose"
    /\ last.flag
    /\ last.sock = wsRef
    /\ socks[wsRef].readyState = "CLOSED"
    /\ messages # <<>>
    /\ ~isConnected

\* C12: while the current channel is still connecting, the connection
\* status shown is not connected, even if the channel before it was open.
C12_ConnectingNotReportedOpen ==
    (wsRef # 0 /\ socks[wsRef].readyState = "CONNECTING") => ~isConnected

\* C14: no automatic reconnect.  A socket is constructed only on mount or
\* after the active identity changed; a closed socket stays closed; and
\* while the current channel is closed the status stays disconnected,
\* whatever is sent, forgotten or received.
C14_NoAutomaticReconnect ==
    [][ /\ Len(socks') > Len(socks) =>
               \/ ~mounted /\ mounted'
               \/ wsRef # 0 /\ userId # socks[wsRef].target
        /\ \A s \in DOMAIN socks :
               socks[s].readyState = "CLOSED" =>
                   (s \in DOMAIN socks' /\ socks'[s].readyState = "CLOSED")
        /\ (wsRef # 0 /\ socks[wsRef].readyState = "CLOSED" /\ Len(socks') = Len(socks))
               => (wsRef' = wsRef /\ isConnected' = FALSE) ]_vars

\* C14 witness: the current channel has failed, the component is still
\* mounted, and a late frame of a superseded channel has been handled since;
\* no socket is live.
C14_Witness ==
    /\ mounted
    /\ wsRef # 0
    /\ socks[wsRef].readyState = "CLOSED"
    /\ wsRef \notin torn
    /\ last.op = "dropped"
    /\ \A s \in DOMAIN socks : ~Live(s)
    /\ ~isConnected

\* C19: the connection status follows the current channel only: whenever
\* the current channel is open (its open event has been handled) the status
\* is connected, whatever close event of a superseded channel arrives.
C19_StatusFollowsCurrentChannel ==
    ChannelOpen => isConnected

\* A frame has content when the field is present and not the empty string.
HasContent(f) == f.content # Absent /\ f.content # Some(<<>>)

TypingEventHandled == last'.op = "onmessage" /\ last'.frame.ok /\ last'.frame.type = "typing"

ToolEventHandled == last'.op = "onmessage" /\ last'.frame.ok /\ last'.frame.type = "tool"

UnknownEventHandled ==
    /\ last'.op = "onmessage"
    /\ last'.frame.ok
    /\ last'.frame.type \notin {"message", "typing", "tool"}

\* C13: a frame that is not JSON leaves the Timeline, the TypingFlag, the
\* connection status and the socket as they are, and the channel goes on:
\* on a socket whose handler has thrown before, a message event with content
\* still appends its entry and clears the TypingFlag, a typing event still
\* sets the TypingFlag, a tool event with content still appends its entry.
C13_MalformedFrameIgnored ==
    [][ /\ (last'.op = "onmessage" /\ last'.frame = Malformed) =>
               /\ messages' = messages
               /\ isTyping' = isTyping
               /\ isConnected' = isConnected
               /\ wsRef' = wsRef
               /\ socks'[last'.sock].readyState = socks[last'.sock].readyState
        /\ (last'.op = "onmessage" /\ last'.sock \in threw /\ last'.frame.ok) =>
               /\ (last'.frame.type = "message" /\ HasContent(last'.frame)) =>
                      /\ Len(messages') = Len(messages) + 1
                      /\ messages'[Len(messages')].content = last'.frame.content[1]
                      /\ isTyping' = FALSE
               /\ last'.frame.type = "typing" =>
                      /\ messages' = messages
                      /\ isTyping' = (last'.frame.typing = Some(TRUE))
               /\ (last'.frame.type = "tool" /\ HasContent(last'.frame)) =>
                      /\ Len(messages') = Len(messages) + 1
                      /\ messages'[Len(messages')].sender = "tool"
                      /\ isTyping' = isTyping ]_vars

\* C13 witness: the handler has thrown on the current socket while the
\* TypingFlag was raised by a local send, the socket is still open, and the
\* message event that arrived afterwards has appended its entry.
C13_Witness ==
    /\ wsRef \in threw
    /\ socks[wsRef].readyState = "OPEN"
    /\ isConnected
    /\ last.op = "onmessage"
    /\ last.sock = wsRef
    /\ last.frame.type = "message"
    /\ Len(messages) = 2
    /\ messages[1].sender = "user"
    /\ messages[2].sender = "assistant"
    /\ messages[2].id = nextId - 1
    /\ ~isTyping

\* C15 as stated: a typing event sets the TypingFlag to its payload (false
\* when there is none) and leaves the Timeline; a raised TypingFlag is
\* cleared by every message event and by every typing-stopped event.
C15_TypingClearedByEveryMessageEvent ==
    [][ /\ TypingEventHandled =>
               /\ isTyping' = (last'.frame.typing = Some(TRUE))
               /\ messages' = messages
        /\ (isTyping /\ MessageEventHandled) => isTyping' = FALSE ]_vars

\* C15 amended: a typing event sets the TypingFlag to its payload (false
\* when there is none) and leaves the Timeline; a raised TypingFlag is
\* cleared by a message event that has content and by a typing event whose
\* payload is not true, and a message event without content leaves it
\* raised.
C15_TypingFollowsEvents ==
    [][ /\ TypingEventHandled =>
               /\ isTyping' = (last'.frame.typing = Some(TRUE))
               /\ messages' = messages
        /\ (isTyping /\ MessageEventHandled) =>
               isTyping' = ~HasContent(last'.frame) ]_vars

\* C15 witness: after a local send a typing event without a payload was
\* handled; the TypingFlag is down and the Timeline holds the user's entry
\* only.
C15_Witness ==
    /\ last.op = "onmessage"
    /\ last.frame.type = "typing"
    /\ last.frame.typing = Absent
    /\ Len(messages) = 1
    /\ messages[1].sender = "user"
    /\ ~isTyping

\* C16 as stated: every tool event appends exactly one entry with sender
\* tool and the content of the event and leaves the TypingFlag; a frame of
\* an unknown kind leaves the Timeline and the TypingFlag.
C16_EveryToolEventAppends ==
    [][ /\ ToolEventHandled =>
               /\ Len(messages') = Len(messages) + 1
               /\ SubSeq(messages', 1, Len(messages)) = messages
               /\ messages'[Len(messages')].sender = "tool"
               /\ Some(messages'[Len(messages')].content) = last'.frame.content
               /\ isTyping' = isTyping
        /\ UnknownEventHandled =>
               /\ messages' = messages
               /\ isTyping' = isTyping ]_vars

\* C16 amended: a tool event that has content appends exactly one entry
\* with sender tool and that content and leaves the TypingFlag; a tool
\* event whose content is empty or absent, and a frame of an unknown kind,
\* leave the Timeline and the TypingFlag.
C16_ToolEventWithContentAppends ==
    [][ /\ ToolEventHandled =>
               IF HasContent(last'.frame)
               THEN /\ Len(messages') = Len(messages) + 1
                    /\ SubSeq(messages', 1, Len(messages)) = messages
                    /\ messages'[Len(messages')].sender = "tool"
                    /\ Some(messages'[Len(messages')].content) = last'.frame.content
                    /\ isTyping' = isTyping
               ELSE /\ messages' = messages
                    /\ isTyping' = isTyping
        /\ UnknownEventHandled =>
               /\ messages' = messages
               /\ isTyping' = isTyping ]_vars

\* C16 witness: a tool event arrived while the TypingFlag was raised by a
\* local send; its entry follows the user's and the TypingFlag is still up.
C16_Witness ==
    /\ last.op = "onmessage"
    /\ last.frame.type = "tool"
    /\ Len(messages) = 2
    /\ messages[1].sender = "user"
    /\ messages[2].sender = "tool"
    /\ messages[2].content = <<"t">>
    /\ isTyping

\* C18: createNew switches to the preferred id without its leading and
\* trailing spaces when that leaves something, and otherwise to a generated
\* identity that starts with "web_"; either way it does what one switchTo
\* does (the Timeline is emptied, the identity is set, no socket is touched
\* by the handler itself, the connect effect is due exactly when the
\* identity changed) and the new-session input is reset to empty.
C18_CreateNewSwitchesOnce ==
    [][ last'.op = "handleNewSession" =>
            /\ IF AllSpaces(newUserId)
               THEN \E sfx \in RandomSuffixes : userId' = "web_" \o sfx
               ELSE userId' = Join(Stripped(newUserId))
            /\ newUserId' = <<>>
            /\ messages' = <<>>
            /\ effectPending' = (userId' # userId)
            /\ wsRef' = wsRef
            /\ socks' = socks ]_vars

\* C18 witness: a preferred id typed with spaces around it was submitted
\* while the thread held an entry; the identity is the id without the
\* spaces, the thread and the input are empty, one reconnect is due.
C18_Witness ==
    /\ last.op = "handleNewSession"
    /\ userId = "b"
    /\ newUserId = <<>>
    /\ messages = <<>>
    /\ nextId > 1
    /\ effectPending

\* C17: when a fetch of a user's sessions or memories fails, the list shown
\* afterwards is empty and the loading flag is lowered.
C17_FailedFetchEmptiesList ==
    [][ /\ (last'.op = "fetchSessions" /\ last'.flag) =>
               (sidebar'.sessions = <<>> /\ ~sidebar'.loading)
        /\ (last'.op = "fetchMemories" /\ last'.flag) =>
               (sidebar'.memories = <<>> /\ ~sidebar'.loading) ]_vars

\* C20: in the Sidebar, once no sessions request is in flight (and none has
\* failed), every session in the list shown belongs to the selected user.
C20_ListBelongsToSelectedUser ==
    (/\ \A i \in DOMAIN sidebar.pending : sidebar.pending[i].what # "sessions"
     /\ ~sidebar.failed
     /\ sidebar.selectedUser # NoUser)
        => \A i \in DOMAIN sidebar.sessions :
               sidebar.sessions[i].user_id = sidebar.selectedUser

\* C21: in the Sidebar and in the SessionBrowser the loading flag is true
\* whenever a list fetch it guards is in flight.
C21_LoadingWhileFetchInFlight ==
    /\ sidebar.pending # <<>> => sidebar.loading
    /\ browser.pending # <<>> => browser.loading

\* C22: in the SessionBrowser a selected session implies a selected user;
\* Back with a session selected clears the session and its messages and
\* nothing else; Back with only a user selected clears the user and the
\* user's session list and nothing else.
C22_SessionImpliesUser ==
    [][ /\ browser'.selectedSession # NoSession => browser'.selectedUser # NoUser
        /\ (last'.op = "handleBack" /\ browser.selectedSession # NoSession) =>
               browser' = [browser EXCEPT !.selectedSession = NoSession,
                                          !.messages = <<>>]
        /\ (last'.op = "handleBack" /\ browser.selectedSession = NoSession
                                    /\ browser.selectedUser # NoUser) =>
               browser' = [browser EXCEPT !.selectedUser = NoUser,
                                          !.userSessions = <<>>] ]_vars

\* C22 witness: a user and then a session were selected, Back was pressed
\* twice while the messages request was still in flight: neither a session
\* nor a user is selected and the session list is empty.
C22_Witness ==
    /\ last.op = "handleBack"
    /\ ~last.flag
    /\ browser.selectedUser = NoUser
    /\ browser.selectedSession = NoSession
    /\ browser.userSessions = <<>>
    /\ \E i \in DOMAIN browser.pending : browser.pending[i].what = "messages"

====
